---- MODULE Spec2Model ----
(***************************************************************************)
(* zenodo_get: the record downloader of src/src/zenodo_get.py.             *)
(*                                                                         *)
(* The model follows the main program statement by statement: argument    *)
(* handling, DOI resolution, the metadata request, the md5sums.txt writer, *)
(* the link-list writer and the download loop with its pre-check, retry    *)
(* loop and post-check.  The HTTP client, the download primitive and the   *)
(* local files present at start are the environment: their results are    *)
(* drawn from small sets.  Text is a sequence of tokens, ":" being a       *)
(* token of its own, so that str.split(':') is computed, not assumed.      *)
(***************************************************************************)
EXTENDS Integers, Sequences, FiniteSets, TLC

(* ---------------------------- bounds ---------------------------------- *)
MaxFiles == 2
MaxRetry == 1

(* ---------------------------- text ------------------------------------ *)
Colon == ":"

RECURSIVE SplitFrom(_, _, _)
\* str.split(':') of s[i..], cur being the part collected so far
SplitFrom(s, i, cur) ==
    IF i > Len(s) THEN <<cur>>
    ELSE IF s[i] = Colon THEN <<cur>> \o SplitFrom(s, i + 1, <<>>)
    ELSE SplitFrom(s, i + 1, Append(cur, s[i]))

Split(s) == SplitFrom(s, 1, <<>>)

Last(parts) == parts[Len(parts)]

(* ---------------------------- hashing --------------------------------- *)
\* hashlib.new(algorithm) raises ValueError for a name it does not know
SupportedAlgorithms == {<<"md5">>}

\* what a local file holds, and the hex digest hashlib computes for it
Contents == {"c1", "c2"}
HexDigest(content) == IF content = "c1" THEN <<"d1">> ELSE <<"d2">>

NoFile == "none"
Invalid == <<"invalid">>

\* variant: the digest taken as split(':')[-1] and the algorithm defaulted, so
\* that a text without a colon is accepted
check_hash_LenientSplit(disk, filename, checksum) ==
    LET parts == Split(checksum) IN
    IF disk[filename] = NoFile
    THEN [raised |-> "none", pair |-> <<Last(parts), Invalid>>]
    ELSE IF Len(parts) > 1 /\ parts[1] \notin SupportedAlgorithms
    THEN [raised |-> "ValueError", pair |-> <<Invalid, Invalid>>]
    ELSE [raised |-> "none", pair |-> <<Last(parts), HexDigest(disk[filename])>>]

\* result of check_hash: either the pair it returns or the exception raised
check_hash(disk, filename, checksum) ==
    LET parts == Split(checksum) IN
    IF Len(parts) # 2
    THEN [raised |-> "ValueError", pair |-> <<Invalid, Invalid>>]
    ELSE IF disk[filename] = NoFile
    THEN [raised |-> "none", pair |-> <<parts[2], Invalid>>]
    ELSE IF parts[1] \notin SupportedAlgorithms
    THEN [raised |-> "ValueError", pair |-> <<Invalid, Invalid>>]
    ELSE [raised |-> "none", pair |-> <<parts[2], HexDigest(disk[filename])>>]

(* ---------------------------- manifest -------------------------------- *)
\* local file names: the manifest keys and the name the download primitive
\* uses instead of a key
Keys == {"a", "b"}
AltName(k) == IF k = "a" THEN "a (1)" ELSE "b (1)"
Names == Keys \cup {AltName(k) : k \in Keys}

FileA == [key |-> "a", size |-> 1, checksum |-> <<"md5", Colon, "d1">>,
          links |-> [self |-> "url/a"]]
FileB == [key |-> "b", size |-> 2, checksum |-> <<"md5", Colon, "d2">>,
          links |-> [self |-> "url/b"]]
\* checksum text without a colon
FileNoColon == [key |-> "a", size |-> 1, checksum |-> <<"d1">>,
                links |-> [self |-> "url/a"]]
\* checksum of an algorithm hashlib does not know
FileBadAlg == [key |-> "b", size |-> 2, checksum |-> <<"sha9", Colon, "d2">>,
               links |-> [self |-> "url/b"]]
\* expected digest that reads "invalid"
FileInvalid == [key |-> "a", size |-> 1, checksum |-> <<"md5", Colon, "invalid">>,
                links |-> [self |-> "url/a"]]
\* entries with a field missing
FileNoLinks == [key |-> "b", size |-> 2, checksum |-> <<"md5", Colon, "d2">>]
FileNoKey == [size |-> 1, checksum |-> <<"md5", Colon, "d1">>,
              links |-> [self |-> "url/a"]]
FileNoSize == [key |-> "b", checksum |-> <<"md5", Colon, "d2">>,
               links |-> [self |-> "url/b"]]

Catalogue == {FileA, FileB, FileNoColon, FileBadAlg, FileInvalid,
              FileNoLinks, FileNoKey, FileNoSize}

Has(f, field) == field \in DOMAIN f

Manifests == UNION {[1..n -> Catalogue] : n \in 0..MaxFiles}

RECURSIVE SumSizes(_, _)
SumSizes(fs, i) == IF i > Len(fs) THEN 0 ELSE fs[i].size + SumSizes(fs, i + 1)

(* ---------------------------- state ----------------------------------- *)
VARIABLES
    pc,         \* position in the main program
    options,    \* parsed command line (optparse values)
    args,       \* positional argument kind: "none", "int", "text"
    files,      \* js['files']
    total_size, \* sum of the declared sizes
    idx,        \* index of the file the download loop is at
    tries,      \* iterations of the retry loop done for the current file
    filename,   \* name returned by the last successful wget.download
    disk,       \* local files: name -> content or NoFile
    md5file,    \* md5sums.txt
    wgetfile,   \* the link list file
    stdout,     \* lines printed to standard output
    stderr,     \* notices printed by eprint
    exitcode,   \* process exit status, -1 while running
    traceback,  \* the run ended in an uncaught exception
    gets,       \* history: results of the requests.get calls, by target
    attempts,   \* history: wget.download calls per manifest index
    outcome,    \* history: how each manifest index ended
    last        \* history: the step of the program taken last

vars == <<pc, options, args, files, total_size, idx, tries, filename, disk,
          md5file, wgetfile, stdout, stderr, exitcode, traceback, gets,
          attempts, outcome, last>>

Absent == [exists |-> FALSE, lines |-> <<>>]
None == "None"

Retries == 0..MaxRetry

\* the loop options at their defaults
Defaults(o) == ~o.error /\ ~o.keep /\ o.cont /\ o.retry = 0

\* the option values considered: --cite alone, or any mix of the other options
\* (md5 holds the Python value as text, because line 179 compares it to None)
Options == {o \in [cite : BOOLEAN, doi : {None}, record : {None},
                   md5 : {"False", "True"}, wget : {None, "-", "urls.txt"},
                   error : BOOLEAN, keep : BOOLEAN, cont : BOOLEAN,
                   retry : Retries] :
              o.cite => (o.md5 = "False" /\ o.wget = None /\ Defaults(o))}

\* the command lines considered: a record ID with any options; a DOI or no
\* positional argument with any output mode and the loop options at their
\* defaults (nothing after line 170 reads how the record ID was obtained)
CommandLines == {c \in [options : Options, args : {"none", "int", "text"}] :
                   c.args # "int" => Defaults(c.options)}

\* files present when the program starts: "a" missing or with either content,
\* "b" missing or with the content the manifest expects of it
InitialDisks == {d \in [Names -> Contents \cup {NoFile}] :
                   /\ \A k \in Keys : d[AltName(k)] = NoFile
                   /\ d["b"] # "c1"}

Init ==
    /\ pc = "start"
    /\ \E c \in CommandLines : options = c.options /\ args = c.args
    /\ files = <<>>
    /\ total_size = 0
    /\ idx = 0
    /\ tries = 0
    /\ filename = None
    /\ disk \in InitialDisks
    /\ md5file = Absent
    /\ wgetfile = Absent
    /\ stdout = <<>>
    /\ stderr = <<>>
    /\ exitcode = -1
    /\ traceback = FALSE
    /\ gets = [doi |-> <<>>, api |-> <<>>]
    /\ attempts = [i \in 1..(MaxFiles + 1) |-> 0]
    /\ outcome = [i \in 1..(MaxFiles + 1) |-> "none"]
    /\ last = "none"

(* ---------------------------- process end ----------------------------- *)
\* sys.exit(code), or falling off the end of the program (code 0)
Exit(code) ==
    /\ pc' = "exit"
    /\ exitcode' = code
    /\ traceback' = FALSE

\* an exception nobody catches: the interpreter prints the traceback and
\* ends the process with status 1
Uncaught ==
    /\ pc' = "exit"
    /\ exitcode' = 1
    /\ traceback' = TRUE

eprint(msg) == stderr' = Append(stderr, msg)

(* ---------------------------- argument handling ----------------------- *)
ParseArgs ==
    /\ pc = "start"
    /\ last' = "ParseArgs"
    /\ IF options.cite
       THEN /\ stdout' = stdout \o <<"reference", "bibtex">>
            /\ Exit(0)
            /\ UNCHANGED options
       ELSE IF args = "int"
       THEN /\ options' = [options EXCEPT !.record = "id"]
            /\ pc' = "resolve"
            /\ UNCHANGED <<stdout, exitcode, traceback>>
       ELSE IF args = "text"
       THEN /\ options' = [options EXCEPT !.doi = "doi"]
            /\ pc' = "resolve"
            /\ UNCHANGED <<stdout, exitcode, traceback>>
       ELSE IF options.doi = None /\ options.record = None
       THEN /\ stdout' = Append(stdout, "help")
            /\ Exit(0)
            /\ UNCHANGED options
       ELSE /\ pc' = "resolve"
            /\ UNCHANGED <<options, stdout, exitcode, traceback>>
    /\ UNCHANGED <<args, files, total_size, idx, tries, filename, disk,
                   md5file, wgetfile, stderr, gets, attempts, outcome>>

(* ---------------------------- resolver -------------------------------- *)
\* what requests.get can do: raise, answer with a failure status, answer ok
GetResults == {"raise", "fail", "ok"}

ResolveFailed(r) == r # "ok"

Resolve ==
    /\ pc = "resolve"
    /\ last' = "Resolve"
    /\ IF options.doi # None
       THEN \E r \in GetResults :
              /\ gets' = [gets EXCEPT !.doi = Append(@, r)]
              /\ IF r = "raise"
                 THEN /\ eprint("Connection error.")
                      /\ Exit(1)
                 ELSE IF ResolveFailed(r)
                 THEN /\ eprint("DOI could not be resolved.")
                      /\ Exit(1)
                 ELSE /\ pc' = "fetch"
                      /\ UNCHANGED <<stderr, exitcode, traceback>>
       ELSE /\ pc' = "fetch"
            /\ UNCHANGED <<gets, stderr, exitcode, traceback>>
    /\ UNCHANGED <<options, args, files, total_size, idx, tries, filename,
                   disk, md5file, wgetfile, stdout, attempts, outcome>>

(* ---------------------------- metadata fetch -------------------------- *)
\* a response body: a JSON object with a manifest, or one without 'files'
Bodies == {[files |-> m] : m \in Manifests} \cup {[message |-> "gone"]}

\* variant: the status of the metadata response is not looked at
FetchFailed_Unchecked(r) == FALSE

FetchFailed(r) == r # "ok"

Fetch ==
    /\ pc = "fetch"
    /\ last' = "Fetch"
    /\ \E r \in GetResults, body \in Bodies :
         /\ gets' = [gets EXCEPT !.api = Append(@, r)]
         /\ IF r = "raise"
            THEN /\ Uncaught
                 /\ UNCHANGED <<files, total_size, stderr>>
            ELSE IF FetchFailed(r)
            THEN /\ eprint("Record could not get accessed.")
                 /\ Exit(1)
                 /\ UNCHANGED <<files, total_size>>
            ELSE IF ~Has(body, "files")
            THEN /\ Uncaught
                 /\ UNCHANGED <<files, total_size, stderr>>
            ELSE /\ files' = body.files
                 /\ IF \E i \in 1..Len(body.files) : ~Has(body.files[i], "size")
                    THEN /\ Uncaught
                         /\ UNCHANGED total_size
                    ELSE /\ total_size' = SumSizes(body.files, 1)
                         /\ pc' = "md5"
                         /\ UNCHANGED <<exitcode, traceback>>
                 /\ UNCHANGED stderr
    /\ UNCHANGED <<options, args, idx, tries, filename, disk, md5file,
                   wgetfile, stdout, attempts, outcome>>

(* ---------------------------- md5sums.txt ---------------------------- *)
\* first manifest index whose md5sums.txt line cannot be formed (a KeyError
\* on 'key' or 'checksum'), Len + 1 when every line can
RECURSIVE FirstBadMd5(_, _)
FirstBadMd5(fs, i) ==
    IF i > Len(fs) THEN i
    ELSE IF ~Has(fs[i], "key") \/ ~Has(fs[i], "checksum") THEN i
    ELSE FirstBadMd5(fs, i + 1)

\* variant: the first part of the split (the algorithm) instead of the last
Md5Line_FirstPart(f) == <<Head(Split(f.checksum)), f.key>>

\* '{}  {}\n'.format(checksum, fname), checksum = f['checksum'].split(':')[-1]
Md5Line(f) == <<Last(Split(f.checksum)), f.key>>

Md5Lines(fs) == [i \in 1..(FirstBadMd5(fs, 1) - 1) |-> Md5Line(fs[i])]

\* variant: the flag tested for truth
Md5Wanted_Truthy == options.md5 = "True"

\* the guard of line 179
Md5Wanted == options.md5 # None

WriteMd5 ==
    /\ pc = "md5"
    /\ last' = "WriteMd5"
    /\ IF Md5Wanted
       THEN /\ md5file' = [exists |-> TRUE, lines |-> Md5Lines(files)]
            /\ IF FirstBadMd5(files, 1) <= Len(files)
               THEN Uncaught
               ELSE /\ pc' = "dispatch"
                    /\ UNCHANGED <<exitcode, traceback>>
       ELSE /\ pc' = "dispatch"
            /\ UNCHANGED <<md5file, exitcode, traceback>>
    /\ UNCHANGED <<options, args, files, total_size, idx, tries, filename,
                   disk, wgetfile, stdout, stderr, gets, attempts, outcome>>

(* ---------------------------- link list ------------------------------- *)
RECURSIVE FirstBadLink(_, _)
FirstBadLink(fs, i) ==
    IF i > Len(fs) THEN i
    ELSE IF ~Has(fs[i], "links") THEN i
    ELSE FirstBadLink(fs, i + 1)

\* variant: the links collected in reverse order
Links_Reversed(fs) ==
    [i \in 1..(FirstBadLink(fs, 1) - 1) |-> fs[FirstBadLink(fs, 1) - i].links.self]

Links(fs) == [i \in 1..(FirstBadLink(fs, 1) - 1) |-> fs[i].links.self]

\* variant: only the "-" target counts as link-list mode
LinkListWanted_StdoutOnly == options.wget = "-"

\* the guard of line 186
LinkListWanted == options.wget # None

WriteLinks ==
    /\ pc = "dispatch"
    /\ last' = "WriteLinks"
    /\ LinkListWanted
    /\ IF options.wget = "-"
       THEN /\ stdout' = stdout \o Links(files)
            /\ UNCHANGED wgetfile
       ELSE /\ wgetfile' = [exists |-> TRUE, lines |-> Links(files)]
            /\ UNCHANGED stdout
    /\ IF FirstBadLink(files, 1) <= Len(files)
       THEN Uncaught
       ELSE Exit(0)
    /\ UNCHANGED <<options, args, files, total_size, idx, tries, filename,
                   disk, md5file, stderr, gets, attempts, outcome>>

(* ---------------------------- download loop --------------------------- *)
\* variant: the loop steps over a manifest entry
NextFile_SkipsOne(i) == i + 2

\* the for loop of line 198 moving on to the next manifest entry
NextFile(i) == i + 1

\* variant: no break, the retry loop goes on after a successful download
AfterSuccess_NoBreak == "retry"

\* variant: control does not come back from the download
AfterSuccess_Hangs == "download"

\* the break of lines 218-219: a successful download leaves the retry loop
AfterSuccess == "postcheck"

StartLoop ==
    /\ pc = "dispatch"
    /\ last' = "StartLoop"
    /\ ~LinkListWanted
    /\ eprint("Total size")
    /\ idx' = 1
    /\ pc' = "loop"
    /\ UNCHANGED <<options, args, files, total_size, tries, filename, disk,
                   md5file, wgetfile, stdout, exitcode, traceback, gets,
                   attempts, outcome>>

\* variant: the continue flag read the wrong way round
AlreadyDownloaded_FlagInverted(pair) == pair[1] = pair[2] /\ ~options.cont

\* the test of line 208
AlreadyDownloaded(pair) == pair[1] = pair[2] /\ options.cont

\* lines 199-210: the head of the loop body up to the pre-check
PreCheck ==
    /\ pc = "loop"
    /\ last' = "PreCheck"
    /\ idx <= Len(files)
    /\ LET f == files[idx] IN
       IF ~Has(f, "links")
       THEN /\ Uncaught
            /\ UNCHANGED <<stderr, idx, tries, outcome>>
       ELSE IF ~Has(f, "key") \/ ~Has(f, "checksum")
       THEN /\ stderr' = Append(stderr, "Link")
            /\ Uncaught
            /\ UNCHANGED <<idx, tries, outcome>>
       ELSE LET res == check_hash(disk, f.key, f.checksum) IN
            IF res.raised # "none"
            THEN /\ stderr' = Append(stderr, "Link")
                 /\ Uncaught
                 /\ UNCHANGED <<idx, tries, outcome>>
            ELSE IF AlreadyDownloaded(res.pair)
            THEN /\ stderr' = stderr \o <<"Link", "already downloaded correctly">>
                 /\ outcome' = [outcome EXCEPT ![idx] = "already-valid"]
                 /\ idx' = NextFile(idx)
                 /\ UNCHANGED <<pc, tries, exitcode, traceback>>
            ELSE /\ stderr' = Append(stderr, "Link")
                 /\ tries' = 0
                 /\ pc' = "retry"
                 /\ UNCHANGED <<idx, outcome, exitcode, traceback>>
    /\ UNCHANGED <<options, args, files, total_size, filename, disk, md5file,
                   wgetfile, stdout, gets, attempts>>

\* variant: one iteration too many
RetryRange_OneMore == options.retry + 2

\* range(options.retry + 1)
RetryRange == options.retry + 1

\* local name the download primitive derives from a link
Basename(link) == IF link = "url/a" THEN "a" ELSE "b"
DownloadNames(link) == {Basename(link), AltName(Basename(link))}

\* lines 212-219: one iteration of the retry loop
Download ==
    /\ pc = "retry"
    /\ last' = "Download"
    /\ tries < RetryRange
    /\ attempts' = [attempts EXCEPT ![idx] = @ + 1]
    /\ \/ \* wget.download raised: notice, sleep, next iteration
          /\ eprint("Download error.")
          /\ tries' = tries + 1
          /\ UNCHANGED <<pc, filename, disk>>
       \/ \* wget.download returned the name it wrote: break
          \E n \in DownloadNames(files[idx].links.self), c \in Contents :
            /\ filename' = n
            /\ disk' = [disk EXCEPT ![n] = c]
            /\ pc' = AfterSuccess
            /\ UNCHANGED <<stderr, tries>>
    /\ UNCHANGED <<options, args, files, total_size, idx, md5file, wgetfile,
                   stdout, exitcode, traceback, gets, outcome>>

\* exit status of the abort at line 223
AbortStatus == 0

\* lines 220-226: the else branch of the retry loop
RetryExhausted ==
    /\ pc = "retry"
    /\ last' = "RetryExhausted"
    /\ tries >= RetryRange
    /\ IF ~options.error
       THEN /\ eprint("Too many errors, download is aborted.")
            /\ outcome' = [outcome EXCEPT ![idx] = "failed-aborted"]
            /\ Exit(AbortStatus)
            /\ UNCHANGED idx
       ELSE /\ eprint("Too many errors, download continues with the next file.")
            /\ outcome' = [outcome EXCEPT ![idx] = "failed-skipped"]
            /\ idx' = NextFile(idx)
            /\ pc' = "loop"
            /\ UNCHANGED <<exitcode, traceback>>
    /\ UNCHANGED <<options, args, files, total_size, tries, filename, disk,
                   md5file, wgetfile, stdout, gets, attempts>>

\* variant: the file is never removed
AfterMismatch_NeverRemoved(d, name) == d

\* variant: the file is removed whatever --keep says
AfterMismatch_AlwaysRemoved(d, name) == [d EXCEPT ![name] = NoFile]

\* os.remove unless --keep (line 234)
AfterMismatch(d, name) == IF ~options.keep THEN [d EXCEPT ![name] = NoFile] ELSE d

\* variant: the continue-on-error flag read the wrong way round
MismatchIsFatal_FlagInverted == options.error

\* whether a mismatch ends the run (line 239)
MismatchIsFatal == ~options.error

\* lines 228-240: post-check of the downloaded file
PostCheck ==
    /\ pc = "postcheck"
    /\ last' = "PostCheck"
    /\ LET res == check_hash(disk, filename, files[idx].checksum) IN
       IF res.raised # "none"
       THEN /\ Uncaught
            /\ UNCHANGED <<stderr, disk, idx, outcome>>
       ELSE IF res.pair[1] = res.pair[2]
       THEN /\ eprint("Checksum is correct.")
            /\ outcome' = [outcome EXCEPT ![idx] = "downloaded-and-valid"]
            /\ idx' = NextFile(idx)
            /\ pc' = "loop"
            /\ UNCHANGED <<disk, exitcode, traceback>>
       ELSE /\ stderr' = stderr \o <<"Checksum is INCORRECT!",
                                     IF ~options.keep THEN "File is deleted."
                                     ELSE "File is NOT deleted!">>
            /\ disk' = AfterMismatch(disk, filename)
            /\ outcome' = [outcome EXCEPT ![idx] =
                             IF ~options.keep THEN "downloaded-invalid-deleted"
                             ELSE "downloaded-invalid-kept"]
            /\ IF MismatchIsFatal
               THEN /\ Exit(1)
                    /\ UNCHANGED idx
               ELSE /\ idx' = NextFile(idx)
                    /\ pc' = "loop"
                    /\ UNCHANGED <<exitcode, traceback>>
    /\ UNCHANGED <<options, args, files, total_size, tries, filename,
                   md5file, wgetfile, stdout, gets, attempts>>

\* line 241 and the end of the program
Finish ==
    /\ pc = "loop"
    /\ last' = "Finish"
    /\ idx > Len(files)
    /\ eprint("All files have been downloaded.")
    /\ Exit(0)
    /\ UNCHANGED <<options, args, files, total_size, idx, tries, filename,
                   disk, md5file, wgetfile, stdout, gets, attempts, outcome>>

Next ==
    \/ ParseArgs
    \/ Resolve
    \/ Fetch
    \/ WriteMd5
    \/ WriteLinks
    \/ StartLoop
    \/ PreCheck
    \/ Download
    \/ RetryExhausted
    \/ PostCheck
    \/ Finish

Spec == Init /\ [][Next]_vars

\* the runs followed to their end: those started without --md5 and without a
\* local file "b" (the flag is not read after line 179)
LiveInit == Init /\ options.md5 = "False" /\ disk["b"] = NoFile

\* the program is sequential and every call it makes returns: a step that
\* can be taken is taken
FairSpec == LiveInit /\ [][Next]_vars /\ WF_vars(Next)
(* ====================================================================== *)
(* Properties                                                             *)
(* ====================================================================== *)
Indices == 1..Len(files)

Running == pc \in {"loop", "retry", "postcheck"}

\* the digest the manifest expects of a file: the text after the first colon
RECURSIVE AfterFirstColon(_)
AfterFirstColon(s) ==
    IF s = <<>> THEN <<>>
    ELSE IF Head(s) = Colon THEN Tail(s)
    ELSE AfterFirstColon(Tail(s))

RECURSIVE BeforeFirstColon(_)
BeforeFirstColon(s) ==
    IF s = <<>> \/ Head(s) = Colon THEN <<>>
    ELSE <<Head(s)>> \o BeforeFirstColon(Tail(s))

HasColon(s) == \E k \in 1..Len(s) : s[k] = Colon

\* the local file under the manifest name of f hashes, with the algorithm the
\* checksum names, to the expected digest
LocalCopyValid(d, f) ==
    /\ Has(f, "key") /\ Has(f, "checksum")
    /\ d[f.key] # NoFile
    /\ HasColon(f.checksum)
    /\ BeforeFirstColon(f.checksum) \in SupportedAlgorithms
    /\ HexDigest(d[f.key]) = AfterFirstColon(f.checksum)

NoticeGiven(msg) == \E k \in 1..Len(stderr) : stderr[k] = msg

Completed == NoticeGiven("All files have been downloaded.")

Mismatched(i) ==
    outcome[i] \in {"downloaded-invalid-deleted", "downloaded-invalid-kept"}

Exhausted(i) == outcome[i] \in {"failed-aborted", "failed-skipped"}

NoDownloads == \A i \in 1..(MaxFiles + 1) : attempts[i] = 0

\* C1: in continue mode, a pre-check that finds a valid local copy under the
\* manifest name makes no download attempt for that file and moves on to the
\* next file.
C1_ValidLocalCopyIsSkipped ==
    [][(/\ pc = "loop" /\ idx <= Len(files) /\ options.cont
        /\ Has(files[idx], "links")
        /\ LocalCopyValid(disk, files[idx]))
       => (/\ attempts'[idx] = 0
           /\ idx' = idx + 1
           /\ pc' = "loop"
           /\ disk' = disk
           /\ outcome'[idx] = "already-valid")]_vars

C1_Witness ==
    \E i \in Indices :
        /\ outcome[i] = "already-valid"
        /\ LocalCopyValid(disk, files[i])
        /\ attempts[i] = 0
        /\ idx > i

\* C2: no file gets more than retry + 1 download attempts, and a file whose
\* retry loop is exhausted got exactly retry + 1 attempts.
C2_AttemptsBoundedByRetry ==
    \A i \in 1..(MaxFiles + 1) :
        /\ attempts[i] <= options.retry + 1
        /\ Exhausted(i) => attempts[i] = options.retry + 1

C2_Witness ==
    \E i \in Indices :
        /\ Exhausted(i)
        /\ options.retry >= 1
        /\ attempts[i] = options.retry + 1

\* C3: without continue-on-error, a post-check mismatch on file i ends the
\* run at once with status 1: no later file is pre-checked or downloaded and
\* the completion notice is not given.
C3_MismatchAborts ==
    \A i \in Indices :
        (~options.error /\ Mismatched(i)) =>
            /\ pc = "exit"
            /\ exitcode = 1
            /\ idx = i
            /\ ~Completed
            /\ \A j \in Indices : j > i => attempts[j] = 0 /\ outcome[j] = "none"

C3_Witness ==
    \E i \in Indices :
        /\ ~options.error /\ Mismatched(i)
        /\ Len(files) > i
        /\ pc = "exit"

\* C4: with continue-on-error, once a file mismatched or exhausted its
\* retries the run still ends with every manifest file processed, the
\* completion notice given and a normal exit.
C4_ContinueOnErrorCompletes ==
    (/\ pc = "exit" /\ options.error
     /\ \E i \in Indices : Mismatched(i) \/ Exhausted(i))
    => (/\ Completed
        /\ exitcode = 0
        /\ ~traceback
        /\ \A j \in Indices : outcome[j] # "none")

\* C5: without continue-on-error, retry exhaustion ends the run with a
\* non-zero exit status and leaves the remaining files untouched.
C5_ExhaustionExitsNonZero ==
    \A i \in Indices :
        (~options.error /\ Exhausted(i)) =>
            /\ pc = "exit"
            /\ exitcode # 0
            /\ \A j \in Indices : j > i => attempts[j] = 0 /\ outcome[j] = "none"

\* C6 as stated: with --md5 or --wget given no download attempt is made.
C6_Md5OrWgetBypassesLoop ==
    (options.md5 = "True" \/ options.wget # None) => NoDownloads

\* C6 amended: with --wget given the download loop is never entered and no
\* download attempt is made.
C6_WgetBypassesLoop ==
    options.wget # None => (NoDownloads /\ ~Running)

C6_Witness ==
    /\ options.wget # None
    /\ last = "WriteLinks"
    /\ Len(files) > 0
    /\ NoDownloads

\* C7: once md5sums.txt is written for a manifest whose entries all have a
\* name and a checksum, it holds one line per manifest file, in manifest
\* order, pairing the expected digest with the file name.
NamedAndSummed(fs) ==
    \A i \in 1..Len(fs) : Has(fs[i], "key") /\ Has(fs[i], "checksum")

C7_Md5FileListsManifest ==
    (options.md5 = "True" /\ md5file.exists /\ NamedAndSummed(files)) =>
        /\ Len(md5file.lines) = Len(files)
        /\ \A i \in Indices :
             /\ md5file.lines[i][2] = files[i].key
             /\ HasColon(files[i].checksum) =>
                  md5file.lines[i][1] = AfterFirstColon(files[i].checksum)

C7_Witness ==
    /\ options.md5 = "True"
    /\ md5file.exists
    /\ Len(files) = MaxFiles
    /\ files[1] # files[2]
    /\ NamedAndSummed(files)
    /\ Len(md5file.lines) = Len(files)

\* C8: when the link list has been written for a manifest whose entries all
\* have a link, the output (standard output for "-", else the named file)
\* holds the links of the manifest in order, one each, and nothing was
\* downloaded.
Linked(fs) == \A i \in 1..Len(fs) : Has(fs[i], "links")

LinkOutput == IF options.wget = "-" THEN stdout ELSE wgetfile.lines

C8_LinkListListsManifest ==
    (last = "WriteLinks" /\ Linked(files)) =>
        /\ Len(LinkOutput) = Len(files)
        /\ \A i \in Indices : LinkOutput[i] = files[i].links.self
        /\ options.wget # "-" => wgetfile.exists
        /\ NoDownloads

C8_Witness ==
    /\ last = "WriteLinks"
    /\ Linked(files)
    /\ Len(files) = MaxFiles
    /\ files[1].links # files[2].links
    /\ Len(LinkOutput) = Len(files)

\* C9: right after a post-check mismatch the downloaded file is gone when
\* --keep is not set and still there when it is, whether the run goes on or
\* stops.
JustChecked == IF pc = "exit" THEN idx ELSE idx - 1

C9_KeepDecidesDeletion ==
    (last = "PostCheck" /\ Mismatched(JustChecked)) =>
        /\ ~options.keep => disk[filename] = NoFile
        /\ options.keep => disk[filename] # NoFile

C9_Witness ==
    /\ last = "PostCheck"
    /\ Mismatched(JustChecked)
    /\ options.keep
    /\ options.error
    /\ disk[filename] # NoFile

\* C10: a failed DOI resolution (connection error or failure status) or a
\* metadata request answered with a failure status ends the run at once with
\* status 1: the request is made once, no local file is written and nothing
\* is downloaded.
FatalRequest ==
    \/ \E k \in 1..Len(gets.doi) : gets.doi[k] \in {"raise", "fail"}
    \/ \E k \in 1..Len(gets.api) : gets.api[k] = "fail"

C10_RequestFailureIsFatal ==
    FatalRequest =>
        /\ pc = "exit"
        /\ exitcode = 1
        /\ ~traceback
        /\ Len(gets.doi) <= 1
        /\ Len(gets.api) <= 1
        /\ (Len(gets.doi) = 1 /\ gets.doi[1] # "ok") => gets.api = <<>>
        /\ md5file = Absent
        /\ wgetfile = Absent
        /\ filename = None
        /\ NoDownloads

C10_Witness ==
    /\ gets.doi = <<"ok">>
    /\ gets.api = <<"fail">>
    /\ pc = "exit"
    /\ exitcode = 1
\* C11: no run ends in an uncaught exception: every failure ends in a handled
\* exit with a notice.
C11_NoUncaughtException ==
    pc = "exit" => ~traceback

\* C12: the pre-check never reports a file that does not exist under the
\* manifest name as already downloaded, whatever the checksum text is.
C12_MissingFileNeverValid ==
    (last = "PreCheck" /\ pc = "loop" /\ idx > 1
     /\ outcome[idx - 1] = "already-valid")
    => disk[files[idx - 1].key] # NoFile

\* C13: right after a file is recorded as downloaded and valid, a valid copy
\* exists under its manifest name, whatever name the download returned.
C13_ValidDownloadIsUnderManifestName ==
    (last = "PostCheck" /\ pc = "loop" /\ idx > 1
     /\ outcome[idx - 1] = "downloaded-and-valid")
    => LocalCopyValid(disk, files[idx - 1])
\* C14: a download that succeeded is never repeated: download attempts are
\* made only in the retry loop of the current file, a successful attempt
\* leads to the post-check, and the post-check leads to the next file or to
\* the end of the run, whatever its verdict and whatever the retry count.
C14_SuccessIsNeverRetried ==
    [][/\ idx' >= idx
       /\ \A i \in 1..(MaxFiles + 1) :
            attempts'[i] # attempts[i] =>
                /\ i = idx /\ idx' = idx /\ pc = "retry"
                /\ attempts'[i] = attempts[i] + 1
                /\ stderr' = stderr => pc' = "postcheck"
       /\ pc = "postcheck" =>
            /\ attempts' = attempts
            /\ pc' = "exit" \/ (pc' = "loop" /\ idx' = idx + 1)
       /\ (pc = "loop" /\ pc' = "retry") => attempts[idx] = 0]_vars

C14_Witness ==
    \E i \in Indices :
        /\ Mismatched(i)
        /\ options.retry >= 1
        /\ attempts[i] = 1
        /\ idx > i

\* C15: a file whose checksum text has no colon is never recorded as valid:
\* its pre-check ends the run in an error, and it is neither downloaded nor
\* passed over.
NoColon(i) == Has(files[i], "checksum") /\ ~HasColon(files[i].checksum)

C15_NoColonNeverValid ==
    \A i \in Indices :
        NoColon(i) =>
            /\ outcome[i] \notin {"already-valid", "downloaded-and-valid"}
            /\ attempts[i] = 0
            /\ idx <= i
            /\ (idx = i /\ last = "PreCheck" /\ pc # "loop")
                 => (pc = "exit" /\ exitcode # 0)

C15_Witness ==
    \E i \in Indices :
        /\ NoColon(i)
        /\ idx = i
        /\ last = "PreCheck"
        /\ pc = "exit"
        /\ disk[files[i].key] = "c1"

\* C16: with continue mode disabled every manifest file the loop is done with
\* got at least one download attempt.
DoneWith(i) == i < idx \/ (i = idx /\ pc = "exit")

C16_NoContinueAlwaysDownloads ==
    \A i \in Indices :
        (~options.cont /\ DoneWith(i)) => attempts[i] >= 1
\* C17: files are handled in manifest order, one at a time: a file past the
\* loop index has neither been pre-checked nor downloaded, and every file
\* before the loop index has its outcome.
C17_ManifestOrder ==
    \A j \in 1..(MaxFiles + 1) :
        /\ j > idx => (attempts[j] = 0 /\ outcome[j] = "none")
        /\ (j < idx /\ j <= Len(files)) =>
               outcome[j] \in {"already-valid", "downloaded-and-valid",
                               "downloaded-invalid-kept",
                               "downloaded-invalid-deleted", "failed-skipped"}

C17_Witness ==
    /\ Len(files) = MaxFiles
    /\ idx = MaxFiles
    /\ pc = "retry"
    /\ attempts[idx] > 0
    /\ outcome[1] = "failed-skipped"

\* C18: whenever a link has been put out or the download loop has been
\* entered, md5sums.txt holds its line for every manifest file, with or
\* without --md5.
Md5FileComplete ==
    /\ md5file.exists
    /\ Len(md5file.lines) = Len(files)
    /\ \A i \in Indices : Has(files[i], "key") /\ md5file.lines[i][2] = files[i].key

C18_Md5FileAlwaysWrittenFirst ==
    (\/ Running
     \/ ~NoDownloads
     \/ last \in {"WriteLinks", "StartLoop"}
     \/ pc = "dispatch")
    => Md5FileComplete

C18_Witness ==
    /\ options.md5 = "False"
    /\ ~NoDownloads
    /\ Len(files) = MaxFiles
    /\ Md5FileComplete

\* C19: the local files change only in two ways: the download writes the
\* file whose name it returns, and a mismatching post-check without --keep
\* removes that file. Every other step, a passing post-check included,
\* leaves all local files as they are.
PostCheckMismatch ==
    /\ pc = "postcheck"
    /\ disk[filename] # NoFile
    /\ HexDigest(disk[filename]) # AfterFirstColon(files[idx].checksum)

C19_OnlyDownloadedFileIsDeleted ==
    [][\A n \in Names :
         disk'[n] # disk[n] =>
            \/ /\ pc = "retry" /\ pc' = "postcheck"
               /\ n = filename' /\ disk'[n] # NoFile
            \/ /\ PostCheckMismatch /\ ~options.keep
               /\ n = filename /\ disk'[n] = NoFile]_vars

C19_Witness ==
    /\ last = "PostCheck"
    /\ Mismatched(JustChecked)
    /\ ~options.keep
    /\ filename = "a (1)"
    /\ disk[filename] = NoFile
    /\ disk["a"] = "c1"
    /\ disk["b"] = "c2"
\* C20: every run ends: the process exits, after the completion notice, by
\* one of the abort paths or by an error.
C20_RunTerminates ==
    <>(pc = "exit")

C20_Witness ==
    /\ pc = "exit"
    /\ Completed
    /\ Len(files) = MaxFiles
    /\ options.retry = MaxRetry
    /\ \E i \in Indices : outcome[i] = "failed-skipped"
====
